---- MODULE Spec2Model ----
(***************************************************************************)
(* Model of the ProjectsGrid component of rm-project-explorer              *)
(* (frontend/src/components/ProjectsTable.tsx, kept as src/unnamed/        *)
(* part_000) and of the API client it calls (src/frontend/src/App.tsx,     *)
(* lines 25-93).                                                           *)
(*                                                                         *)
(* JavaScript strings are sequences of UTF-16 code units; the model keeps  *)
(* them as sequences of numbers (restricted to ASCII), so that `<`,        *)
(* split(','), join(','), localeCompare and the percent-encoding of        *)
(* URLSearchParams are computed, not assumed.                              *)
(***************************************************************************)
EXTENDS Integers, Sequences, FiniteSets, TLC

(***************************************************************************)
(* String literals of the source, as code units.                           *)
(***************************************************************************)
\* "env"
s_env == <<101, 110, 118>>
\* "groupBy"
s_groupBy == <<103, 114, 111, 117, 112, 66, 121>>
\* "sortBy"
s_sortBy == <<115, 111, 114, 116, 66, 121>>
\* "sortDir"
s_sortDir == <<115, 111, 114, 116, 68, 105, 114>>
\* "selected"
s_selected == <<115, 101, 108, 101, 99, 116, 101, 100>>
\* "local"
s_local == <<108, 111, 99, 97, 108>>
\* "production"
s_production == <<112, 114, 111, 100, 117, 99, 116, 105, 111, 110>>
\* "none"
s_none == <<110, 111, 110, 101>>
\* "author"
s_author == <<97, 117, 116, 104, 111, 114>>
\* "agency"
s_agency == <<97, 103, 101, 110, 99, 121>>
\* "name"
s_name == <<110, 97, 109, 101>>
\* "created_at"
s_created_at == <<99, 114, 101, 97, 116, 101, 100, 95, 97, 116>>
\* "updated_at"
s_updated_at == <<117, 112, 100, 97, 116, 101, 100, 95, 97, 116>>
\* "asc"
s_asc == <<97, 115, 99>>
\* "desc"
s_desc == <<100, 101, 115, 99>>
\* "id", "agency_name", "author_name": property names of UniqueProject
s_id == <<105, 100>>
s_agency_name == <<97, 103, 101, 110, 99, 121, 95, 110, 97, 109, 101>>
s_author_name == <<97, 117, 116, 104, 111, 114, 95, 110, 97, 109, 101>>
s_agency_id == <<97, 103, 101, 110, 99, 121, 95, 105, 100>>
s_author_id == <<97, 117, 116, 104, 111, 114, 95, 105, 100>>
\* "Failed to fetch projects"
s_FailedToFetch == <<70, 97, 105, 108, 101, 100, 32, 116, 111, 32, 102, 101, 116,
                     99, 104, 32, 112, 114, 111, 106, 101, 99, 116, 115>>
\* the code unit of ','
Comma == 44

(***************************************************************************)
(* The members of the TypeScript enums.                                    *)
(***************************************************************************)
Environment == {s_local, s_production}
GroupByType == {s_none, s_author, s_agency}
SortByType == {s_name, s_agency, s_author, s_created_at, s_updated_at}
SortDirection == {s_asc, s_desc}

(***************************************************************************)
(* null | string: a value that may be absent.                              *)
(***************************************************************************)
Null == [has |-> FALSE, v |-> <<>>]
Some(s) == [has |-> TRUE, v |-> s]
\* JavaScript truthiness of a null | string value: null and "" are falsy.
Truthy(o) == o.has /\ o.v # <<>>
\* (o || dflt) for a null | string value o and a string dflt.
OrDefault(o, dflt) == IF Truthy(o) THEN o.v ELSE dflt

(***************************************************************************)
(* Sequence helpers.                                                       *)
(***************************************************************************)
Range(s) == {s[i] : i \in DOMAIN s}

Reverse(s) == [i \in 1..Len(s) |-> s[Len(s) + 1 - i]]

RECURSIVE Concat(_)
Concat(ss) == IF ss = <<>> THEN <<>> ELSE Head(ss) \o Concat(Tail(ss))

\* Position of the first occurrence of c in s, 0 when there is none.
RECURSIVE IndexFrom(_, _, _)
IndexFrom(s, c, i) ==
    IF i > Len(s) THEN 0
    ELSE IF s[i] = c THEN i
    ELSE IndexFrom(s, c, i + 1)

IndexOf(s, c) == IndexFrom(s, c, 1)

\* String.prototype.split(sep) for a one-unit separator: "" gives [""].
RECURSIVE Split(_, _)
Split(s, sep) ==
    LET i == IndexOf(s, sep)
    IN IF i = 0 THEN <<s>>
       ELSE <<SubSeq(s, 1, i - 1)>> \o Split(SubSeq(s, i + 1, Len(s)), sep)

\* Array.prototype.join(sep) for a one-unit separator.
RECURSIVE Join(_, _)
Join(ss, sep) ==
    IF ss = <<>> THEN <<>>
    ELSE IF Len(ss) = 1 THEN ss[1]
    ELSE ss[1] \o <<sep>> \o Join(Tail(ss), sep)

\* new Set(array): the members in order of first insertion.
RECURSIVE NewSet(_)
NewSet(arr) ==
    IF arr = <<>> THEN <<>>
    ELSE LET init == NewSet(SubSeq(arr, 1, Len(arr) - 1))
             x == arr[Len(arr)]
         IN IF x \in Range(init) THEN init ELSE Append(init, x)

\* Set.prototype.add / delete on a Set kept in insertion order.
SetAdd(set, x) == IF x \in Range(set) THEN set ELSE Append(set, x)
SetDelete(set, x) == SelectSeq(set, LAMBDA y : y # x)

(***************************************************************************)
(* URLSearchParams: application/x-www-form-urlencoded parsing and          *)
(* serialising of window.location.search (kept without its leading '?').   *)
(* A parsed list is a sequence of <<name, value>> pairs.                   *)
(***************************************************************************)
IsHex(c) == c \in (48..57) \cup (65..70) \cup (97..102)
HexVal(c) == IF c \in 48..57 THEN c - 48 ELSE IF c \in 65..70 THEN c - 55 ELSE c - 87
HexChar(n) == IF n < 10 THEN 48 + n ELSE 55 + n

\* bytes left as they are by the serialiser: 0-9 A-Z a-z * - . _
Unreserved(c) == c \in (48..57) \cup (65..90) \cup (97..122) \cup {42, 45, 46, 95}

RECURSIVE PercentEncode(_)
PercentEncode(s) ==
    IF s = <<>> THEN <<>>
    ELSE LET c == Head(s)
             e == IF Unreserved(c) THEN <<c>>
                  ELSE IF c = 32 THEN <<43>>
                  ELSE <<37, HexChar(c \div 16), HexChar(c % 16)>>
         IN e \o PercentEncode(Tail(s))

\* '+' becomes a space, %XX becomes the byte, anything else stays.
RECURSIVE PercentDecode(_)
PercentDecode(s) ==
    IF s = <<>> THEN <<>>
    ELSE IF Head(s) = 43 THEN <<32>> \o PercentDecode(Tail(s))
    ELSE IF Head(s) = 37 /\ Len(s) >= 3 /\ IsHex(s[2]) /\ IsHex(s[3])
         THEN <<16 * HexVal(s[2]) + HexVal(s[3])>> \o PercentDecode(SubSeq(s, 4, Len(s)))
    ELSE <<Head(s)>> \o PercentDecode(Tail(s))

ParsePair(piece) ==
    LET i == IndexOf(piece, 61)
    IN IF i = 0 THEN <<PercentDecode(piece), <<>>>>
       ELSE <<PercentDecode(SubSeq(piece, 1, i - 1)),
              PercentDecode(SubSeq(piece, i + 1, Len(piece)))>>

\* new URLSearchParams(window.location.search)
URLSearchParams(q) ==
    LET pieces == SelectSeq(Split(q, 38), LAMBDA p : p # <<>>)
    IN [i \in 1..Len(pieces) |-> ParsePair(pieces[i])]

\* params.get(name): the first value of that name, or null
ParamsGet(params, name) ==
    LET hits == SelectSeq(params, LAMBDA p : p[1] = name)
    IN IF hits = <<>> THEN Null ELSE Some(hits[1][2])

\* params.delete(name)
ParamsDelete(params, name) == SelectSeq(params, LAMBDA p : p[1] # name)

\* params.set(name, value): the first pair of that name takes the value and
\* the others go; appended when there is none.
ParamsSet(params, name, value) ==
    LET first == CHOOSE i \in 1..(Len(params) + 1) :
                    /\ i = Len(params) + 1 \/ params[i][1] = name
                    /\ \A j \in 1..(i - 1) : params[j][1] # name
    IN IF first = Len(params) + 1 THEN Append(params, <<name, value>>)
       ELSE SubSeq(params, 1, first - 1) \o <<<<name, value>>>>
            \o ParamsDelete(SubSeq(params, first + 1, Len(params)), name)

\* params.toString()
ParamsToString(params) ==
    Join([i \in 1..Len(params) |->
            PercentEncode(params[i][1]) \o <<61>> \o PercentEncode(params[i][2])], 38)

(***************************************************************************)
(* getUrlParams and updateUrlParams.                                       *)
(***************************************************************************)
\* getUrlParams(): the view state read from the query string q.
getUrlParams(q) ==
    LET params == URLSearchParams(q)
        sel == ParamsGet(params, s_selected)
    IN [environment |-> OrDefault(ParamsGet(params, s_env), s_local),
        groupBy |-> OrDefault(ParamsGet(params, s_groupBy), s_none),
        sortBy |-> OrDefault(ParamsGet(params, s_sortBy), s_updated_at),
        sortDirection |-> OrDefault(ParamsGet(params, s_sortDir), s_desc),
        selectedProjects |-> IF Truthy(sel) THEN NewSet(Split(sel.v, Comma)) ELSE <<>>]

\* A `selected` branch that writes the parameter even for an empty Set.
SetSelectedParam_NeverDeleting(params, selected) ==
    ParamsSet(params, s_selected, Join(selected, Comma))

\* The `selected` branch of updateUrlParams: set to the comma-join when the
\* Set has members, deleted when it has none.
SetSelectedParam(params, selected) ==
    IF Len(selected) > 0
    THEN ParamsSet(params, s_selected, Join(selected, Comma))
    ELSE ParamsDelete(params, s_selected)

\* An absent key of the Partial<> argument of updateUrlParams.
Undefined == [has |-> FALSE, v |-> <<>>]
NoUpdates ==
    [environment |-> Undefined, groupBy |-> Undefined, sortBy |-> Undefined,
     sortDirection |-> Undefined, selectedProjects |-> Undefined]

\* One `if (updates.key !== undefined) params.set(name, updates.key)`.
SetIfDefined(params, name, update) ==
    IF update.has THEN ParamsSet(params, name, update.v) ELSE params

SetSelectedIfDefined(params, update) ==
    IF update.has THEN SetSelectedParam(params, update.v) ELSE params

\* updateUrlParams(updates) on the query string q: the query string that
\* history.replaceState leaves.
updateUrlParams(q, updates) ==
    ParamsToString(
        SetSelectedIfDefined(
            SetIfDefined(
                SetIfDefined(
                    SetIfDefined(
                        SetIfDefined(URLSearchParams(q), s_env, updates.environment),
                        s_groupBy, updates.groupBy),
                    s_sortBy, updates.sortBy),
                s_sortDir, updates.sortDirection),
            updates.selectedProjects))

(***************************************************************************)
(* JavaScript values compared by the sort: undefined, a string, or a       *)
(* number.  A number here is a Date's getTime(), kept as whole days since  *)
(* the epoch (hi) and milliseconds of the day (lo): the two together are   *)
(* the millisecond count, which does not fit TLC's 32-bit integers.        *)
(***************************************************************************)
JsUndefined == [t |-> "undefined", s |-> <<>>, hi |-> 0, lo |-> 0]
JsString(x) == [t |-> "string", s |-> x, hi |-> 0, lo |-> 0]
JsNumber(h, l) == [t |-> "number", s |-> <<>>, hi |-> h, lo |-> l]

\* a < b on strings: by code units, a proper prefix first.
RECURSIVE StrLess(_, _)
StrLess(a, b) ==
    IF b = <<>> THEN FALSE
    ELSE IF a = <<>> THEN TRUE
    ELSE IF Head(a) # Head(b) THEN Head(a) < Head(b)
    ELSE StrLess(Tail(a), Tail(b))

\* a === b, a < b and a > b for two values of the same type.
StrictEquals(a, b) == a = b
LessThan(a, b) ==
    CASE a.t = "string" -> StrLess(a.s, b.s)
      [] a.t = "number" -> a.hi < b.hi \/ (a.hi = b.hi /\ a.lo < b.lo)
      [] OTHER -> FALSE
GreaterThan(a, b) == LessThan(b, a)

(***************************************************************************)
(* new Date(s).getTime() for the ISO-8601 forms of the export:             *)
(* YYYY-MM-DD, YYYY-MM-DDTHH:MM:SSZ and YYYY-MM-DDTHH:MM:SS.sssZ (UTC).    *)
(***************************************************************************)
RECURSIVE Digits(_)
Digits(s) == IF s = <<>> THEN 0 ELSE 10 * Digits(SubSeq(s, 1, Len(s) - 1)) + (s[Len(s)] - 48)

\* days from 1970-01-01 to the civil date y-m-d
DaysFromCivil(y, m, d) ==
    LET yy == IF m <= 2 THEN y - 1 ELSE y
        era == yy \div 400
        yoe == yy - era * 400
        mp == IF m > 2 THEN m - 3 ELSE m + 9
        doy == (153 * mp + 2) \div 5 + d - 1
        doe == yoe * 365 + yoe \div 4 - yoe \div 100 + doy
    IN era * 146097 + doe - 719468

DateGetTime(s) ==
    LET days == DaysFromCivil(Digits(SubSeq(s, 1, 4)), Digits(SubSeq(s, 6, 7)),
                              Digits(SubSeq(s, 9, 10)))
        secs == IF Len(s) >= 19
                THEN 3600 * Digits(SubSeq(s, 12, 13)) + 60 * Digits(SubSeq(s, 15, 16))
                     + Digits(SubSeq(s, 18, 19))
                ELSE 0
        ms == IF Len(s) >= 23 THEN Digits(SubSeq(s, 21, 23)) ELSE 0
    IN JsNumber(days, 1000 * secs + ms)

(***************************************************************************)
(* sortedProjects                                                          *)
(***************************************************************************)
\* project[key] for a key that is any string: an own property of
\* UniqueProject, or undefined.
Prop(project, key) ==
    CASE key = s_id -> JsString(project.id)
      [] key = s_name -> JsString(project.name)
      [] key = s_agency_id -> JsString(project.agency_id)
      [] key = s_agency_name -> JsString(project.agency_name)
      [] key = s_author_id -> JsString(project.author_id)
      [] key = s_author_name -> JsString(project.author_name)
      [] key = s_created_at -> JsString(project.created_at)
      [] key = s_updated_at -> JsString(project.updated_at)
      [] OTHER -> JsUndefined

\* The switch of the comparator: the value a project is compared by.
SortValue(project, sortBy) ==
    CASE sortBy \in {s_created_at, s_updated_at} ->
            DateGetTime(Prop(project, sortBy).s)
      [] sortBy = s_author -> JsString(project.author_name)
      [] sortBy = s_agency -> JsString(project.agency_name)
      [] OTHER -> Prop(project, sortBy)

\* The comparator handed to Array.prototype.sort.
\* A comparator that forgets the direction.
Compare_IgnoringDirection(a, b, sortBy, sortDirection) ==
    LET aValue == SortValue(a, sortBy)
        bValue == SortValue(b, sortBy)
    IN IF StrictEquals(aValue, bValue) THEN 0
       ELSE IF LessThan(aValue, bValue) THEN -1
       ELSE IF GreaterThan(aValue, bValue) THEN 1
       ELSE 0

Compare(a, b, sortBy, sortDirection) ==
    LET aValue == SortValue(a, sortBy)
        bValue == SortValue(b, sortBy)
        comparison == IF LessThan(aValue, bValue) THEN -1
                      ELSE IF GreaterThan(aValue, bValue) THEN 1
                      ELSE 0
    IN IF StrictEquals(aValue, bValue) THEN 0
       ELSE IF sortDirection = s_desc THEN comparison * (-1)
       ELSE comparison

\* Array.prototype.sort with a comparator is stable (ES2019): an element
\* goes after every earlier element that does not compare greater.
RECURSIVE InsertProject(_, _, _, _)
InsertProject(sorted, x, sortBy, sortDirection) ==
    IF sorted = <<>> THEN <<x>>
    ELSE LET last == sorted[Len(sorted)]
         IN IF Compare(last, x, sortBy, sortDirection) > 0
            THEN Append(InsertProject(SubSeq(sorted, 1, Len(sorted) - 1), x,
                                      sortBy, sortDirection), last)
            ELSE Append(sorted, x)

RECURSIVE ArraySort(_, _, _)
ArraySort(arr, sortBy, sortDirection) ==
    IF arr = <<>> THEN <<>>
    ELSE InsertProject(ArraySort(SubSeq(arr, 1, Len(arr) - 1), sortBy, sortDirection),
                       arr[Len(arr)], sortBy, sortDirection)

\* A sort that gets the descending order by reversing the ascending one.
SortedProjects_ReversingForDesc(d, sortBy, sortDirection) ==
    IF ~d.has THEN <<>>
    ELSE IF sortDirection = s_desc
         THEN Reverse(ArraySort(d.unique_projects, sortBy, s_asc))
    ELSE ArraySort(d.unique_projects, sortBy, sortDirection)

\* The sortedProjects memo: [] without data, else a sorted copy.
SortedProjects(d, sortBy, sortDirection) ==
    IF ~d.has THEN <<>>
    ELSE ArraySort(d.unique_projects, sortBy, sortDirection)

(***************************************************************************)
(* groupedProjects                                                         *)
(***************************************************************************)
\* Names every object inherits from Object.prototype: groups[name] is
\* truthy for them although groups has no such own property.
ObjectPrototypeKeys ==
    { <<99, 111, 110, 115, 116, 114, 117, 99, 116, 111, 114>>,       \* constructor
      <<116, 111, 83, 116, 114, 105, 110, 103>>,                     \* toString
      <<118, 97, 108, 117, 101, 79, 102>>,                           \* valueOf
      <<104, 97, 115, 79, 119, 110, 80, 114, 111, 112, 101, 114, 116, 121>>,
      <<105, 115, 80, 114, 111, 116, 111, 116, 121, 112, 101, 79, 102>>,
      <<116, 111, 76, 111, 99, 97, 108, 101, 83, 116, 114, 105, 110, 103>>,
      <<95, 95, 112, 114, 111, 116, 111, 95, 95>> }                  \* __proto__

\* String.prototype.localeCompare under the default (root) collation, for
\* strings of ASCII letters, digits and spaces: first by the letters with
\* case ignored (space < digits < letters), and only when those agree by
\* case, lower case first.
IsUpper(c) == c \in 65..90
IsLower(c) == c \in 97..122
PrimaryWeight(c) ==
    IF IsUpper(c) THEN 200 + (c - 65)
    ELSE IF IsLower(c) THEN 200 + (c - 97)
    ELSE IF c \in 48..57 THEN 100 + (c - 48)
    ELSE c
TertiaryWeight(c) == IF IsUpper(c) THEN 1 ELSE 0

RECURSIVE SeqCompare(_, _)
SeqCompare(a, b) ==
    IF a = <<>> /\ b = <<>> THEN 0
    ELSE IF a = <<>> THEN -1
    ELSE IF b = <<>> THEN 1
    ELSE IF Head(a) < Head(b) THEN -1
    ELSE IF Head(a) > Head(b) THEN 1
    ELSE SeqCompare(Tail(a), Tail(b))

LocaleCompare(a, b) ==
    LET pa == [i \in 1..Len(a) |-> PrimaryWeight(a[i])]
        pb == [i \in 1..Len(b) |-> PrimaryWeight(b[i])]
        ta == [i \in 1..Len(a) |-> TertiaryWeight(a[i])]
        tb == [i \in 1..Len(b) |-> TertiaryWeight(b[i])]
    IN IF SeqCompare(pa, pb) # 0 THEN SeqCompare(pa, pb) ELSE SeqCompare(ta, tb)

\* The forEach of groupedProjects on the object `groups`, kept as its own
\* entries <<key, projects>> in order of insertion.  threw: the push on an
\* inherited, non-array value raised a TypeError.
RECURSIVE BuildGroups(_, _)
BuildGroups(projects, groupBy) ==
    IF projects = <<>> THEN [threw |-> FALSE, entries |-> <<>>]
    ELSE LET before == BuildGroups(SubSeq(projects, 1, Len(projects) - 1), groupBy)
             project == projects[Len(projects)]
             groupKey == IF groupBy = s_author THEN project.author_name
                         ELSE project.agency_name
             own == {i \in 1..Len(before.entries) : before.entries[i][1] = groupKey}
         IN IF before.threw THEN before
            ELSE IF own # {}
                 THEN LET i == CHOOSE j \in own : TRUE
                      IN [before EXCEPT !.entries[i][2] = Append(@, project)]
            ELSE IF groupKey \in ObjectPrototypeKeys
                 THEN [before EXCEPT !.threw = TRUE]
            ELSE [before EXCEPT !.entries = Append(@, <<groupKey, <<project>>>>)]

\* A canonical array index ("0", "7", "42"): Object.entries lists such keys
\* first, in ascending numeric order, before the other keys.
IsArrayIndex(key) ==
    /\ key # <<>>
    /\ Len(key) <= 9
    /\ \A i \in 1..Len(key) : key[i] \in 48..57
    /\ (key[1] = 48 => Len(key) = 1)

RECURSIVE InsertIndexEntry(_, _)
InsertIndexEntry(sorted, e) ==
    IF sorted = <<>> THEN <<e>>
    ELSE IF Digits(sorted[Len(sorted)][1]) > Digits(e[1])
         THEN Append(InsertIndexEntry(SubSeq(sorted, 1, Len(sorted) - 1), e),
                     sorted[Len(sorted)])
    ELSE Append(sorted, e)

RECURSIVE SortIndexEntries(_)
SortIndexEntries(es) ==
    IF es = <<>> THEN <<>>
    ELSE InsertIndexEntry(SortIndexEntries(SubSeq(es, 1, Len(es) - 1)), es[Len(es)])

ObjectEntries(entries) ==
    SortIndexEntries(SelectSeq(entries, LAMBDA e : IsArrayIndex(e[1])))
    \o SelectSeq(entries, LAMBDA e : ~IsArrayIndex(e[1]))

\* .sort(([a], [b]) => a.localeCompare(b)), stable.
RECURSIVE InsertEntry(_, _)
InsertEntry(sorted, e) ==
    IF sorted = <<>> THEN <<e>>
    ELSE IF LocaleCompare(sorted[Len(sorted)][1], e[1]) > 0
         THEN Append(InsertEntry(SubSeq(sorted, 1, Len(sorted) - 1), e),
                     sorted[Len(sorted)])
    ELSE Append(sorted, e)

RECURSIVE SortEntries(_)
SortEntries(es) ==
    IF es = <<>> THEN <<>>
    ELSE InsertEntry(SortEntries(SubSeq(es, 1, Len(es) - 1)), es[Len(es)])

\* A grouping that leaves the groups in the order of Object.entries.
GroupedProjects_Unsorted(sorted, groupBy) ==
    IF groupBy = s_none
    THEN [threw |-> FALSE,
          groups |-> <<[key |-> <<97, 108, 108>>, title |-> <<>>, projects |-> sorted]>>]
    ELSE LET built == BuildGroups(sorted, groupBy)
             es == ObjectEntries(built.entries)
         IN IF built.threw THEN [threw |-> TRUE, groups |-> <<>>]
            ELSE [threw |-> FALSE,
                  groups |-> [i \in 1..Len(es) |->
                                [key |-> es[i][1], title |-> es[i][1],
                                 projects |-> es[i][2]]]]

\* The groupedProjects memo: the groups rendered, or threw.
GroupedProjects(sorted, groupBy) ==
    IF groupBy = s_none
    THEN [threw |-> FALSE,
          groups |-> <<[key |-> <<97, 108, 108>>, title |-> <<>>, projects |-> sorted]>>]
    ELSE LET built == BuildGroups(sorted, groupBy)
             es == SortEntries(ObjectEntries(built.entries))
         IN IF built.threw THEN [threw |-> TRUE, groups |-> <<>>]
            ELSE [threw |-> FALSE,
                  groups |-> [i \in 1..Len(es) |->
                                [key |-> es[i][1], title |-> es[i][1],
                                 projects |-> es[i][2]]]]

(***************************************************************************)
(* getUniqueMapIds                                                         *)
(***************************************************************************)
\* Array.prototype.sort() without a comparator, on strings: ascending by
\* code units.
RECURSIVE InsertString(_, _)
InsertString(sorted, x) ==
    IF sorted = <<>> THEN <<x>>
    ELSE IF StrLess(x, sorted[Len(sorted)])
         THEN Append(InsertString(SubSeq(sorted, 1, Len(sorted) - 1), x),
                     sorted[Len(sorted)])
    ELSE Append(sorted, x)

RECURSIVE SortStrings(_)
SortStrings(arr) ==
    IF arr = <<>> THEN <<>>
    ELSE InsertString(SortStrings(SubSeq(arr, 1, Len(arr) - 1)), arr[Len(arr)])

\* The forEach over the jobs: the Set of map ids, in insertion order.
RECURSIVE CollectMapIds(_, _)
CollectMapIds(jobs, selected) ==
    IF jobs = <<>> THEN <<>>
    ELSE LET mapIds == CollectMapIds(SubSeq(jobs, 1, Len(jobs) - 1), selected)
             job == jobs[Len(jobs)]
         IN IF job.request_payload.project_id \in Range(selected) /\ Truthy(job.map_id)
            THEN SetAdd(mapIds, job.map_id.v)
            ELSE mapIds

\* The map ids in the order the jobs give them.
getUniqueMapIds_Unsorted(d, selected) ==
    IF ~d.has \/ Len(selected) = 0 THEN <<>>
    ELSE CollectMapIds(d.jobs, selected)

getUniqueMapIds(d, selected) ==
    IF ~d.has \/ Len(selected) = 0 THEN <<>>
    ELSE SortStrings(CollectMapIds(d.jobs, selected))

(***************************************************************************)
(* The data the backend can serve.  Strings of the export, as code units.  *)
(***************************************************************************)
\* project ids "a", "b", "c" and "a,b"; "zz" is the id of no project
id_a == <<97>>
id_b == <<98>>
id_c == <<99>>
id_ab == <<97, 44, 98>>
id_zz == <<122, 122>>
\* "Alpha", "alpha", "Beta", "Zeta", "alice", "Bob", "constructor", "7", "10"
n_Alpha == <<65, 108, 112, 104, 97>>
n_alpha == <<97, 108, 112, 104, 97>>
n_Beta == <<66, 101, 116, 97>>
n_Zeta == <<90, 101, 116, 97>>
n_alice == <<97, 108, 105, 99, 101>>
n_Bob == <<66, 111, 98>>
n_constructor == <<99, 111, 110, 115, 116, 114, 117, 99, 116, 111, 114>>
n_7 == <<55>>
n_10 == <<49, 48>>
\* "2025-01-01", "2025-01-01T00:00:00Z" (the same instant), "2025-01-02",
\* "2025-01-01T12:30:00.500Z", "2024-12-31T23:59:59Z"
t_Jan1 == <<50, 48, 50, 53, 45, 48, 49, 45, 48, 49>>
t_Jan1Z == <<50, 48, 50, 53, 45, 48, 49, 45, 48, 49, 84, 48, 48, 58, 48, 48, 58, 48, 48, 90>>
t_Jan2 == <<50, 48, 50, 53, 45, 48, 49, 45, 48, 50>>
t_Jan1Noon == <<50, 48, 50, 53, 45, 48, 49, 45, 48, 49, 84, 49, 50, 58, 51, 48, 58, 48,
                48, 46, 53, 48, 48, 90>>
t_Dec31 == <<50, 48, 50, 52, 45, 49, 50, 45, 51, 49, 84, 50, 51, 58, 53, 57, 58, 53, 57, 90>>
\* map ids "m1", "m2"
m_1 == <<109, 49>>
m_2 == <<109, 50>>
\* "Network Error": the message of an axios error
s_NetworkError == <<78, 101, 116, 119, 111, 114, 107, 32, 69, 114, 114, 111, 114>>
\* "Cannot read properties of null (reading 'success')": the TypeError of
\* response.success on a null body
s_TypeError == <<67, 97, 110, 110, 111, 116, 32, 114, 101, 97, 100, 32, 112, 114, 111,
                 112, 101, 114, 116, 105, 101, 115, 32, 111, 102, 32, 110, 117, 108, 108,
                 32, 40, 114, 101, 97, 100, 105, 110, 103, 32, 39, 115, 117, 99, 99, 101,
                 115, 115, 39, 41>>

UniqueProject(id, name, agency_id, agency_name, author_id, author_name, created, updated) ==
    [id |-> id, name |-> name, agency_id |-> agency_id, agency_name |-> agency_name,
     author_id |-> author_id, author_name |-> author_name,
     created_at |-> created, updated_at |-> updated]

\* Projects with ties in every compared key, with names that differ only in
\* case, with timestamps that are different strings of one instant, and one
\* whose author is called "constructor".
ProjA == UniqueProject(id_a, n_Beta, n_7, n_Zeta, n_7, n_alice, t_Jan1, t_Jan1Noon)
ProjB == UniqueProject(id_b, n_Alpha, n_10, n_alpha, n_10, n_Bob, t_Jan1Z, t_Jan2)
ProjC == UniqueProject(id_c, n_Alpha, n_7, n_Alpha, n_7, n_alice, t_Dec31, t_Jan2)
ProjAB == UniqueProject(id_ab, n_alpha, n_10, n_Zeta, n_10, n_constructor, t_Jan2, t_Dec31)

Job(id, project_id, map_id) ==
    [id |-> id, map_id |-> map_id, request_payload |-> [project_id |-> project_id]]

\* Jobs: two of project a with one map, one of b with another map, one
\* with a null map id, one with an empty map id, one of no listed project.
Job1 == Job(<<106, 49>>, id_a, Some(m_2))
Job2 == Job(<<106, 50>>, id_b, Some(m_1))
Job3 == Job(<<106, 51>>, id_a, Some(m_2))
Job4 == Job(<<106, 52>>, id_b, Null)
Job5 == Job(<<106, 53>>, id_c, Some(<<>>))
Job6 == Job(<<106, 54>>, id_zz, Some(n_10))

\* ProjectsData | null.  sourceFile stands for the bucket the snapshot
\* came from (named by its environment).
NoData == [has |-> FALSE, unique_projects |-> <<>>, jobs |-> <<>>, sourceFile |-> <<>>]
ProjectsData(projects, jobs, source) ==
    [has |-> TRUE, unique_projects |-> projects, jobs |-> jobs, sourceFile |-> source]

\* What GET /api/projects?environment=e can hold for each bucket.
SnapshotsOf(e) ==
    IF e = s_production
    THEN {ProjectsData(<<ProjAB>>, <<Job6>>, s_production)}
    ELSE {ProjectsData(<<ProjA, ProjB>>, <<Job1, Job2, Job3>>, s_local),
          ProjectsData(<<>>, <<>>, s_local)}

\* A ProjectsResponse, or the null body on which response.success throws.
Response(success, d, err, isNull) ==
    [success |-> success, data |-> d, error |-> err, null |-> isNull]

\* projectsApi.getProjects(e): the body the backend sent, or, when the
\* request failed, { success: false, error: message }.
getProjects(e) ==
    {Response(TRUE, d, Null, FALSE) : d \in SnapshotsOf(e)}
    \cup {Response(FALSE, NoData, Some(s_NetworkError), FALSE),
          Response(FALSE, NoData, Null, FALSE),
          Response(TRUE, NoData, Null, FALSE),
          Response(FALSE, NoData, Null, TRUE)}

(***************************************************************************)
(* The component's state.                                                  *)
(***************************************************************************)
VARIABLES
    search,            \* window.location.search, without the '?'
    data,              \* ProjectsData | null
    loading,
    error,             \* string | null
    groupBy,
    sortBy,
    sortDirection,
    environment,
    showConfig,
    selectedProjects,  \* Set<string>, in insertion order
    inflight,          \* the getProjects calls awaited: the environment of each
    phase              \* "constructed": useState has run, no effect yet;
                       \* "mounted"; "crashed": a render threw

vars == <<search, data, loading, error, groupBy, sortBy, sortDirection, environment,
          showConfig, selectedProjects, inflight, phase>>

\* Fetches that can be awaited at once in the model.
MaxInflight == 2

(***************************************************************************)
(* Rendering.                                                              *)
(***************************************************************************)
\* The branch of the component's return: lines 352-395.
View(l, e, d) ==
    IF l THEN "loading"
    ELSE IF Truthy(e) THEN "error"
    ELSE IF ~d.has \/ Len(d.unique_projects) = 0 THEN "empty"
    ELSE "grid"

\* The memos run on every render, before the early returns: a render
\* throws when groupedProjects does.
RenderThrows(d, gb, sb, sd) == GroupedProjects(SortedProjects(d, sb, sd), gb).threw

\* The phase after a render of the state (d, gb, sb, sd).
PhaseAfterRender(d, gb, sb, sd) == IF RenderThrows(d, gb, sb, sd) THEN "crashed" ELSE "mounted"

(***************************************************************************)
(* The effects that write the query string, lines 98-116, in their order.  *)
(* changed: the dependencies that changed in the render.                   *)
(***************************************************************************)
EffectIf(ran, q, updates) == IF ran THEN updateUrlParams(q, updates) ELSE q

UrlEffects(q, changed, env, gb, sb, sd, sel) ==
    EffectIf("selectedProjects" \in changed,
        EffectIf("sortDirection" \in changed,
            EffectIf("sortBy" \in changed,
                EffectIf("groupBy" \in changed,
                    EffectIf("environment" \in changed, q,
                             [NoUpdates EXCEPT !.environment = Some(env)]),
                    [NoUpdates EXCEPT !.groupBy = Some(gb)]),
                [NoUpdates EXCEPT !.sortBy = Some(sb)]),
            [NoUpdates EXCEPT !.sortDirection = Some(sd)]),
        [NoUpdates EXCEPT !.selectedProjects = Some(sel)])

AllDeps == {"environment", "groupBy", "sortBy", "sortDirection", "selectedProjects"}

(***************************************************************************)
(* Query strings the page can be opened with.                              *)
(***************************************************************************)
InitialSearches ==
    {
      \* (empty)
      <<>>,
      \* env=production&groupBy=agency&sortBy=name&sortDir=asc&selected=b,a,b
      <<101, 110, 118, 61, 112, 114, 111, 100, 117, 99, 116, 105, 111, 110, 38, 103,
        114, 111, 117, 112, 66, 121, 61, 97, 103, 101, 110, 99, 121, 38, 115, 111,
        114, 116, 66, 121, 61, 110, 97, 109, 101, 38, 115, 111, 114, 116, 68, 105,
        114, 61, 97, 115, 99, 38, 115, 101, 108, 101, 99, 116, 101, 100, 61, 98, 44,
        97, 44, 98>>,
      \* env=&groupBy=author
      <<101, 110, 118, 61, 38, 103, 114, 111, 117, 112, 66, 121, 61, 97, 117, 116,
        104, 111, 114>> }

(***************************************************************************)
(* Construction: lines 64-73.                                              *)
(***************************************************************************)
Constructed(q) ==
    LET urlParams == getUrlParams(q)
    IN /\ search = q
       /\ data = NoData
       /\ loading = TRUE
       /\ error = Null
       /\ groupBy = urlParams.groupBy
       /\ sortBy = urlParams.sortBy
       /\ sortDirection = urlParams.sortDirection
       /\ environment = urlParams.environment
       /\ showConfig = FALSE
       /\ selectedProjects = urlParams.selectedProjects
       /\ inflight = <<>>
       /\ phase = "constructed"

Init == \E q \in InitialSearches : Constructed(q)

(***************************************************************************)
(* fetchProjects, up to its await: lines 119-123.                          *)
\* A fetch that starts without setting loading.
StartFetch_NotSettingLoading(env) ==
    /\ Len(inflight) < MaxInflight
    /\ loading' = loading
    /\ error' = Null
    /\ inflight' = Append(inflight, env)

(***************************************************************************)
StartFetch(env) ==
    /\ Len(inflight) < MaxInflight
    /\ loading' = TRUE
    /\ error' = Null
    /\ inflight' = Append(inflight, env)

\* The first commit: every effect runs, lines 75-116.
Mount ==
    /\ phase = "constructed"
    /\ StartFetch(environment)
    /\ search' = UrlEffects(search, AllDeps, environment, groupBy, sortBy,
                            sortDirection, selectedProjects)
    /\ phase' = "mounted"
    /\ UNCHANGED <<data, groupBy, sortBy, sortDirection, environment, showConfig,
                   selectedProjects>>

\* A resolution that drops the snapshot held when the fetch failed.
Resolve_DroppingSnapshotOnFailure(i, response) ==
    /\ phase = "mounted"
    /\ i \in 1..Len(inflight)
    /\ response \in getProjects(inflight[i])
    /\ inflight' = SubSeq(inflight, 1, i - 1) \o SubSeq(inflight, i + 1, Len(inflight))
    /\ IF response.null
       THEN /\ error' = Some(s_TypeError)
            /\ data' = NoData
       ELSE IF response.success /\ response.data.has
       THEN /\ data' = response.data
            /\ error' = error
       ELSE /\ error' = Some(OrDefault(response.error, s_FailedToFetch))
            /\ data' = NoData
    /\ loading' = FALSE
    /\ phase' = PhaseAfterRender(data', groupBy, sortBy, sortDirection)
    /\ UNCHANGED <<search, groupBy, sortBy, sortDirection, environment, showConfig,
                   selectedProjects>>

\* fetchProjects after its await, lines 125-134, for the i-th awaited call
\* and a response of its environment.
Resolve(i, response) ==
    /\ phase = "mounted"
    /\ i \in 1..Len(inflight)
    /\ response \in getProjects(inflight[i])
    /\ inflight' = SubSeq(inflight, 1, i - 1) \o SubSeq(inflight, i + 1, Len(inflight))
    /\ IF response.null
       THEN /\ error' = Some(s_TypeError)
            /\ data' = data
       ELSE IF response.success /\ response.data.has
       THEN /\ data' = response.data
            /\ error' = error
       ELSE /\ error' = Some(OrDefault(response.error, s_FailedToFetch))
            /\ data' = data
    /\ loading' = FALSE
    /\ phase' = PhaseAfterRender(data', groupBy, sortBy, sortDirection)
    /\ UNCHANGED <<search, groupBy, sortBy, sortDirection, environment, showConfig,
                   selectedProjects>>

ResolveFetch == \E i \in 1..Len(inflight) : \E r \in getProjects(inflight[i]) : Resolve(i, r)

(***************************************************************************)
(* The handlers of the grid, offered when it is what is rendered.          *)
(***************************************************************************)
\* A grid that stays on screen, with its controls, while a fetch is loading.
GridShown_WhileLoading == phase = "mounted" /\ View(FALSE, error, data) = "grid"

GridShown == phase = "mounted" /\ View(loading, error, data) = "grid"

\* The three-dots button, line 419.
ToggleConfig ==
    /\ GridShown
    /\ showConfig' = ~showConfig
    /\ UNCHANGED <<search, data, loading, error, groupBy, sortBy, sortDirection,
                   environment, selectedProjects, inflight, phase>>

\* handleClickOutside, lines 81-86, registered while the menu is open.
ClickOutside ==
    /\ GridShown
    /\ showConfig
    /\ showConfig' = FALSE
    /\ UNCHANGED <<search, data, loading, error, groupBy, sortBy, sortDirection,
                   environment, selectedProjects, inflight, phase>>

\* An environment switch that empties the selection.
SetEnvironment_ClearingSelection(e) ==
    /\ GridShown
    /\ showConfig
    /\ e \in Environment
    /\ e # environment
    /\ environment' = e
    /\ showConfig' = FALSE
    /\ StartFetch(e)
    /\ selectedProjects' = <<>>
    /\ search' = UrlEffects(search, {"environment", "selectedProjects"}, e, groupBy, sortBy,
                            sortDirection, <<>>)
    /\ UNCHANGED <<data, groupBy, sortBy, sortDirection, phase>>

\* The environment <select>, lines 438-449, then the effects of lines 75-77
\* and 98-100.
SetEnvironment(e) ==
    /\ GridShown
    /\ showConfig
    /\ e \in Environment
    /\ e # environment
    /\ environment' = e
    /\ showConfig' = FALSE
    /\ StartFetch(e)
    /\ search' = UrlEffects(search, {"environment"}, e, groupBy, sortBy, sortDirection,
                            selectedProjects)
    /\ UNCHANGED <<data, groupBy, sortBy, sortDirection, selectedProjects, phase>>

\* The Refresh button, lines 461-466.
Refresh ==
    /\ GridShown
    /\ StartFetch(environment)
    /\ UNCHANGED <<search, data, groupBy, sortBy, sortDirection, environment, showConfig,
                   selectedProjects, phase>>

\* The Try Again button of the error branch, lines 376-381.
TryAgain ==
    /\ phase = "mounted"
    /\ View(loading, error, data) = "error"
    /\ StartFetch(environment)
    /\ UNCHANGED <<search, data, groupBy, sortBy, sortDirection, environment, showConfig,
                   selectedProjects, phase>>

\* handleProjectSelect, lines 141-149: the Set it hands to setSelectedProjects.
handleProjectSelect(selected, projectId, isSelected) ==
    IF isSelected THEN SetAdd(selected, projectId) ELSE SetDelete(selected, projectId)

\* A select-all that keeps the ids selected before.
handleSelectAll_KeepingPrevious(selected, d) ==
    IF ~d.has THEN selected
    ELSE NewSet(selected \o [i \in 1..Len(d.unique_projects) |-> d.unique_projects[i].id])

\* handleSelectAll, lines 151-155.
handleSelectAll(selected, d) ==
    IF ~d.has THEN selected
    ELSE NewSet([i \in 1..Len(d.unique_projects) |-> d.unique_projects[i].id])

\* handleClearAll, lines 157-159.
handleClearAll(selected) == <<>>

\* A new Set was handed to setSelectedProjects: the effect of lines 114-116.
SetSelectedProjects(newSelected) ==
    /\ selectedProjects' = newSelected
    /\ search' = UrlEffects(search, {"selectedProjects"}, environment, groupBy, sortBy,
                            sortDirection, newSelected)
    /\ UNCHANGED <<data, loading, error, groupBy, sortBy, sortDirection, environment,
                   showConfig, inflight, phase>>

\* The checkbox of a card, line 272: checked is the opposite of what it shows.
ProjectSelect(projectId) ==
    /\ GridShown
    /\ \E i \in 1..Len(data.unique_projects) : data.unique_projects[i].id = projectId
    /\ SetSelectedProjects(handleProjectSelect(selectedProjects, projectId,
                                               projectId \notin Range(selectedProjects)))

SelectAll ==
    /\ GridShown
    /\ SetSelectedProjects(handleSelectAll(selectedProjects, data))

ClearAll ==
    /\ GridShown
    /\ SetSelectedProjects(handleClearAll(selectedProjects))

\* The group-by <select>, line 501.  The render that follows may throw, and
\* then no effect runs.
SetGroupBy(g) ==
    /\ GridShown
    /\ g \in GroupByType
    /\ g # groupBy
    /\ groupBy' = g
    /\ phase' = PhaseAfterRender(data, g, sortBy, sortDirection)
    /\ search' = IF phase' = "crashed" THEN search
                 ELSE UrlEffects(search, {"groupBy"}, environment, g, sortBy,
                                 sortDirection, selectedProjects)
    /\ UNCHANGED <<data, loading, error, sortBy, sortDirection, environment, showConfig,
                   selectedProjects, inflight>>

\* The sort-by <select>, line 517.
SetSortBy(f) ==
    /\ GridShown
    /\ f \in SortByType
    /\ f # sortBy
    /\ sortBy' = f
    /\ search' = UrlEffects(search, {"sortBy"}, environment, groupBy, f, sortDirection,
                            selectedProjects)
    /\ UNCHANGED <<data, loading, error, groupBy, sortDirection, environment, showConfig,
                   selectedProjects, inflight, phase>>

\* The direction button, line 529.
ToggleSortDirection ==
    /\ GridShown
    /\ sortDirection' = (IF sortDirection = s_asc THEN s_desc ELSE s_asc)
    /\ search' = UrlEffects(search, {"sortDirection"}, environment, groupBy, sortBy,
                            sortDirection', selectedProjects)
    /\ UNCHANGED <<data, loading, error, groupBy, sortBy, environment, showConfig,
                   selectedProjects, inflight, phase>>

ChooseEnvironment == \E e \in Environment : SetEnvironment(e)
ToggleProject == \E i \in 1..Len(data.unique_projects) : ProjectSelect(data.unique_projects[i].id)
ChooseGroupBy == \E g \in GroupByType : SetGroupBy(g)
ChooseSortBy == \E f \in SortByType : SetSortBy(f)

Next ==
    \/ Mount
    \/ ResolveFetch
    \/ ToggleConfig
    \/ ClickOutside
    \/ ChooseEnvironment
    \/ Refresh
    \/ TryAgain
    \/ ToggleProject
    \/ SelectAll
    \/ ClearAll
    \/ ChooseGroupBy
    \/ ChooseSortBy
    \/ ToggleSortDirection

Spec == Init /\ [][Next]_vars

(***************************************************************************)
(* The state the component is in once it has mounted on the query string q *)
(* and its first fetch has brought the data d: Constructed(q), then Mount,  *)
(* then Resolve with d.                                                    *)
(***************************************************************************)
Loaded(q, d) ==
    LET urlParams == getUrlParams(q)
    IN /\ search = UrlEffects(q, AllDeps, urlParams.environment, urlParams.groupBy,
                              urlParams.sortBy, urlParams.sortDirection,
                              urlParams.selectedProjects)
       /\ data = d
       /\ loading = FALSE
       /\ error = Null
       /\ groupBy = urlParams.groupBy
       /\ sortBy = urlParams.sortBy
       /\ sortDirection = urlParams.sortDirection
       /\ environment = urlParams.environment
       /\ showConfig = FALSE
       /\ selectedProjects = urlParams.selectedProjects
       /\ inflight = <<>>
       /\ phase = PhaseAfterRender(d, urlParams.groupBy, urlParams.sortBy,
                                   urlParams.sortDirection)

\* The sequences of at most n distinct members of S.
DistinctSeqs(S, n) ==
    UNION {{f \in [1..k -> S] : \A i, j \in 1..k : i # j => f[i] # f[j]} : k \in 0..n}

(***************************************************************************)
(* SpecView: sorting and grouping, on every list of at most MaxProjects    *)
(* distinct projects, from query strings with and without unrecognised     *)
(* values.                                                                 *)
(***************************************************************************)
MaxProjects == 3

ProjectPool == {ProjA, ProjB, ProjC, ProjAB}

ViewSearches ==
    {
      \* (empty)
      <<>>,
      \* groupBy=bogus&sortBy=bogus&sortDir=up
      <<103, 114, 111, 117, 112, 66, 121, 61, 98, 111, 103, 117, 115, 38, 115, 111,
        114, 116, 66, 121, 61, 98, 111, 103, 117, 115, 38, 115, 111, 114, 116, 68,
        105, 114, 61, 117, 112>>,
      \* groupBy=agency&sortBy=id&sortDir=asc
      <<103, 114, 111, 117, 112, 66, 121, 61, 97, 103, 101, 110, 99, 121, 38, 115,
        111, 114, 116, 66, 121, 61, 105, 100, 38, 115, 111, 114, 116, 68, 105, 114,
        61, 97, 115, 99>> }

InitView ==
    \E q \in ViewSearches : \E projects \in DistinctSeqs(ProjectPool, MaxProjects) :
        Loaded(q, ProjectsData(projects, <<>>, s_local))

NextView ==
    \/ ChooseGroupBy
    \/ ChooseSortBy
    \/ ToggleSortDirection

SpecView == InitView /\ [][NextView]_vars

(***************************************************************************)
(* SpecSelect: the selection handlers and the map ids of the selection, on *)
(* every list of at most MaxJobs distinct jobs.                            *)
(***************************************************************************)
MaxJobs == 3

JobPool == {Job1, Job2, Job3, Job4, Job5, Job6}

SelectSearches ==
    {
      \* (empty)
      <<>>,
      \* selected=zz,b
      <<115, 101, 108, 101, 99, 116, 101, 100, 61, 122, 122, 44, 98>> }

InitSelect ==
    \E q \in SelectSearches : \E jobs \in DistinctSeqs(JobPool, MaxJobs) :
        Loaded(q, ProjectsData(<<ProjA, ProjB, ProjC>>, jobs, s_local))

NextSelect ==
    \/ ToggleProject
    \/ SelectAll
    \/ ClearAll

SpecSelect == InitSelect /\ [][NextSelect]_vars

(***************************************************************************)
(* SpecHydrate: construction and the first commit, from query strings in   *)
(* which each parameter is absent, empty, a member of its enum, or not.    *)
(***************************************************************************)
\* "staging", "bogus", "up": values of no enum
s_staging == <<115, 116, 97, 103, 105, 110, 103>>
s_bogus == <<98, 111, 103, 117, 115>>
s_up == <<117, 112>>

\* The query string with the given parameters (null: absent), as
\* URLSearchParams writes it.
BuildSearch(env, gb, sb, sd, sel) ==
    LET all == << <<s_env, env>>, <<s_groupBy, gb>>, <<s_sortBy, sb>>, <<s_sortDir, sd>>,
                  <<s_selected, sel>> >>
        present == SelectSeq(all, LAMBDA p : p[2].has)
    IN ParamsToString([i \in 1..Len(present) |-> <<present[i][1], present[i][2].v>>])

HydrationSearches ==
    { BuildSearch(env, gb, sb, sd, sel) :
        env \in {Null, Some(<<>>), Some(s_production), Some(s_staging)},
        gb \in {Null, Some(s_agency), Some(s_bogus)},
        sb \in {Null, Some(s_name), Some(s_id)},
        sd \in {Null, Some(s_asc), Some(s_up)},
        sel \in {Null, Some(<<>>), Some(id_a), Some(<<Comma>>),
                 Some(id_b \o <<Comma>> \o id_a \o <<Comma>> \o id_b)} }

InitHydrate == \E q \in HydrationSearches : Constructed(q)

NextHydrate == Mount

SpecHydrate == InitHydrate /\ [][NextHydrate]_vars

(***************************************************************************)
(* Properties.                                                             *)
(***************************************************************************)
\* The position of x in the sequence s of distinct elements.
PositionIn(s, x) == CHOOSE i \in 1..Len(s) : s[i] = x

IsPermutation(r, s) ==
    /\ Len(r) = Len(s)
    /\ \A x \in Range(r) \cup Range(s) :
          Cardinality({i \in 1..Len(r) : r[i] = x}) = Cardinality({i \in 1..Len(s) : s[i] = x})

StrictlyAscending(r) == \A i \in 1..(Len(r) - 1) : StrLess(r[i], r[i + 1])

\* The map ids of the jobs of selected projects that have a map id.
MapIdsOfSelection ==
    {data.jobs[i].map_id.v :
        i \in {j \in 1..Len(data.jobs) :
                 /\ data.jobs[j].request_payload.project_id \in Range(selectedProjects)
                 /\ data.jobs[j].map_id.has
                 /\ data.jobs[j].map_id.v # <<>>}}

\* C1: getUniqueMapIds returns the empty sequence when nothing is selected,
\* and otherwise a strictly ascending (so duplicate-free) sequence whose
\* members are exactly the non-null, non-empty map ids of the jobs whose
\* project is selected.
C1_UniqueMapIds ==
    LET r == getUniqueMapIds(data, selectedProjects)
    IN IF Len(selectedProjects) = 0 THEN r = <<>>
       ELSE StrictlyAscending(r) /\ Range(r) = MapIdsOfSelection

\* Two map ids came out, of three jobs two of which share one, and the
\* sort changed the order in which the jobs gave them.
C1_Witness ==
    /\ Len(selectedProjects) = 2
    /\ Len(data.jobs) = 3
    /\ Len(getUniqueMapIds(data, selectedProjects)) = 2
    /\ getUniqueMapIds(data, selectedProjects) # CollectMapIds(data.jobs, selectedProjects)

\* No two projects have the same value of the compared key.
NoTies(projects, f) ==
    \A i, j \in 1..Len(projects) :
        i # j => ~StrictEquals(SortValue(projects[i], f), SortValue(projects[j], f))

\* C2: when no two projects have equal values of the compared key, the
\* ascending order reversed is the descending order.
C2_AscReversedIsDesc ==
    (data.has /\ NoTies(data.unique_projects, sortBy)) =>
        Reverse(SortedProjects(data, sortBy, s_asc)) = SortedProjects(data, sortBy, s_desc)

\* Three projects without ties, sorted by a date, in an order that is not
\* the order of the input.
C2_Witness ==
    /\ Len(data.unique_projects) = 3
    /\ sortBy = s_updated_at
    /\ sortDirection = s_desc
    /\ NoTies(data.unique_projects, sortBy)
    /\ SortedProjects(data, sortBy, sortDirection) # data.unique_projects
    /\ SortedProjects(data, sortBy, sortDirection) # Reverse(data.unique_projects)

\* Projects with equal compared keys keep the order they have in the input.
IsStable(r, projects, f) ==
    \A i, j \in 1..Len(projects) :
        (i < j /\ StrictEquals(SortValue(projects[i], f), SortValue(projects[j], f)))
            => PositionIn(r, projects[i]) < PositionIn(r, projects[j])

SortIsStablePermutation ==
    LET r == SortedProjects(data, sortBy, sortDirection)
    IN /\ IsPermutation(r, data.unique_projects)
       /\ IsStable(r, data.unique_projects, sortBy)

\* C3: in either direction the sorted list is a permutation of the input in
\* which projects of equal key keep their relative order, and no step of the
\* view controls changes the input list.
C3_StablePermutation == []SortIsStablePermutation /\ [][data' = data]_vars

\* Descending, two of three projects tie, and the sort moved a project.
C3_Witness ==
    /\ Len(data.unique_projects) = 3
    /\ sortDirection = s_desc
    /\ sortBy = s_name
    /\ ~NoTies(data.unique_projects, sortBy)
    /\ SortedProjects(data, sortBy, sortDirection) # data.unique_projects

\* C4: a sort field outside the enum sorts as the field `name` does.
C4_UnrecognizedSortsAsName ==
    sortBy \notin SortByType =>
        SortedProjects(data, sortBy, sortDirection) = SortedProjects(data, s_name, sortDirection)

\* The members of all groups, group after group.
GroupMembers(groups) == Concat([i \in 1..Len(groups) |-> groups[i].projects])

\* C5: for groupBy none, author or agency the groups partition the sorted
\* list, and for none there is one group, without title, that is the list.
C5_GroupsPartition ==
    groupBy \in GroupByType =>
        LET sorted == SortedProjects(data, sortBy, sortDirection)
            g == GroupedProjects(sorted, groupBy)
        IN /\ ~g.threw
           /\ IsPermutation(GroupMembers(g.groups), sorted)
           /\ groupBy = s_none =>
                 /\ Len(g.groups) = 1
                 /\ g.groups[1].title = <<>>
                 /\ g.groups[1].projects = sorted

\* The key a project is grouped by.
GroupKey(project) == IF groupBy = s_author THEN project.author_name ELSE project.agency_name

\* Projects share a group exactly when their keys are equal, and each group
\* keeps the order of the sorted list.
GroupsByKeyInOrder(groups, sorted) ==
    /\ \A i \in 1..Len(groups) : \A k \in 1..Len(groups[i].projects) :
          GroupKey(groups[i].projects[k]) = groups[i].key
    /\ \A i, j \in 1..Len(groups) : i # j => groups[i].key # groups[j].key
    /\ \A i \in 1..Len(groups) : \A k, l \in 1..Len(groups[i].projects) :
          k < l => PositionIn(sorted, groups[i].projects[k])
                   < PositionIn(sorted, groups[i].projects[l])

\* C6 as claimed: the groups come in ascending order of their keys by code
\* units, the order `<` gives the sort by author or agency.
C6_GroupsInCodeUnitOrder ==
    groupBy \in {s_author, s_agency} =>
        LET sorted == SortedProjects(data, sortBy, sortDirection)
            groups == GroupedProjects(sorted, groupBy).groups
        IN /\ \A i \in 1..(Len(groups) - 1) : StrLess(groups[i].key, groups[i + 1].key)
           /\ GroupsByKeyInOrder(groups, sorted)

\* C6 as amended: the groups come in ascending order of their keys by
\* localeCompare; projects share a group exactly when their keys are equal
\* strings, and each group keeps the order of the sorted list.
C6_GroupsInLocaleOrder ==
    groupBy \in {s_author, s_agency} =>
        LET sorted == SortedProjects(data, sortBy, sortDirection)
            groups == GroupedProjects(sorted, groupBy).groups
        IN /\ \A i \in 1..(Len(groups) - 1) :
                 LocaleCompare(groups[i].key, groups[i + 1].key) < 0
           /\ GroupsByKeyInOrder(groups, sorted)

\* Grouped by agency into three groups, "alpha" before "Alpha" before
\* "Zeta", which is not the order of their code units.
C6_Witness ==
    /\ groupBy = s_agency
    /\ LET groups == GroupedProjects(SortedProjects(data, sortBy, sortDirection),
                                     groupBy).groups
       IN /\ Len(groups) = 3
          /\ groups[1].key = n_alpha
          /\ groups[2].key = n_Alpha
          /\ groups[3].key = n_Zeta

\* The value hydration should give a field: the parameter when it is
\* present and a member of the enum, the default otherwise.
MemberOrDefault(o, enum, dflt) == IF o.has /\ o.v \in enum THEN o.v ELSE dflt

\* C7: on initial load every field whose query parameter is absent or not a
\* member of the field's enum takes the documented default, so environment,
\* groupBy, sortBy and sortDirection always hold a value of their enum.
C7_HydrationDefaults ==
    LET params == URLSearchParams(search)
    IN /\ environment \in Environment
       /\ groupBy \in GroupByType
       /\ sortBy \in SortByType
       /\ sortDirection \in SortDirection
       /\ phase = "constructed" =>
             /\ environment = MemberOrDefault(ParamsGet(params, s_env), Environment, s_local)
             /\ groupBy = MemberOrDefault(ParamsGet(params, s_groupBy), GroupByType, s_none)
             /\ sortBy = MemberOrDefault(ParamsGet(params, s_sortBy), SortByType,
                                         s_updated_at)
             /\ sortDirection = MemberOrDefault(ParamsGet(params, s_sortDir), SortDirection,
                                                s_desc)
             /\ ~ParamsGet(params, s_selected).has => selectedProjects = <<>>

\* C8: once the synchronisation effects have run, the query string holds
\* env, groupBy, sortBy and sortDir equal to the state, and holds `selected`
\* exactly when the selection is not empty, as the comma-join of its ids.
C8_QueryStringReflectsState ==
    phase = "mounted" =>
        LET params == URLSearchParams(search)
        IN /\ ParamsGet(params, s_env) = Some(environment)
           /\ ParamsGet(params, s_groupBy) = Some(groupBy)
           /\ ParamsGet(params, s_sortBy) = Some(sortBy)
           /\ ParamsGet(params, s_sortDir) = Some(sortDirection)
           /\ ParamsGet(params, s_selected).has <=> Len(selectedProjects) > 0
           /\ Len(selectedProjects) > 0 =>
                 ParamsGet(params, s_selected) = Some(Join(selectedProjects, Comma))

\* The local grid, grouped by author, ascending, with two projects selected and
\* written to the query string.
C8_Witness ==
    /\ phase = "mounted"
    /\ environment = s_local
    /\ groupBy = s_author
    /\ sortDirection = s_asc
    /\ Len(selectedProjects) = 2
    /\ ParamsGet(URLSearchParams(search), s_selected) = Some(Join(selectedProjects, Comma))

\* C9: hydrating from the query string that synchronisation wrote gives
\* back the state it was written from, the selection as a set.
C9_RoundTrip ==
    phase = "mounted" =>
        LET urlParams == getUrlParams(search)
        IN /\ urlParams.environment = environment
           /\ urlParams.groupBy = groupBy
           /\ urlParams.sortBy = sortBy
           /\ urlParams.sortDirection = sortDirection
           /\ Range(urlParams.selectedProjects) = Range(selectedProjects)

\* The ids of the projects of the snapshot.
SnapshotIds == {data.unique_projects[i].id : i \in 1..Len(data.unique_projects)}

NoDuplicates(r) == \A i, j \in 1..Len(r) : i # j => r[i] # r[j]

\* The selection handlers as set operations, on the current selection and
\* every id of the snapshot and one of no project.
SelectionAlgebra ==
    LET S == selectedProjects
    IN /\ \A x \in SnapshotIds \cup {id_zz} :
            LET added == handleProjectSelect(S, x, TRUE)
                removed == handleProjectSelect(S, x, FALSE)
            IN /\ Range(added) = Range(S) \cup {x}
               /\ Range(removed) = Range(S) \ {x}
               /\ NoDuplicates(added) /\ NoDuplicates(removed)
               /\ handleProjectSelect(added, x, TRUE) = added
               /\ handleProjectSelect(removed, x, FALSE) = removed
               /\ x \in Range(S) => added = S
               /\ x \notin Range(S) => removed = S
       /\ Range(handleSelectAll(S, data)) = SnapshotIds
       /\ NoDuplicates(handleSelectAll(S, data))
       /\ handleSelectAll(handleSelectAll(S, data), data) = handleSelectAll(S, data)
       /\ handleSelectAll(S, NoData) = S
       /\ handleClearAll(S) = <<>>
       /\ handleClearAll(handleClearAll(S)) = <<>>

\* A step of Select All leaves exactly the ids of the snapshot selected, and
\* the `selected` parameter lists them all.
SelectAllStep ==
    SelectAll =>
        /\ Range(selectedProjects') = SnapshotIds
        /\ ParamsGet(URLSearchParams(search'), s_selected)
             = Some(Join([i \in 1..Len(data.unique_projects) |-> data.unique_projects[i].id],
                         Comma))

\* C10: select gives S with x, deselect S without x, select-all exactly the
\* ids of the snapshot (S itself without a snapshot), clear-all the empty
\* set; each is idempotent, and after select-all the `selected` parameter
\* lists every id of the snapshot.
C10_SelectionOperations ==
    []SelectionAlgebra /\ [][SelectAllStep]_vars

\* All three projects are selected, where an id of no project was selected
\* on load, and the query string lists the three.
C10_Witness ==
    /\ Len(data.unique_projects) = 3
    /\ Range(selectedProjects) = SnapshotIds
    /\ Len(selectedProjects) = 3
    /\ ParamsGet(URLSearchParams(search), s_selected) = Some(Join(selectedProjects, Comma))
    /\ selectedProjects = handleSelectAll(<<id_zz, id_b>>, data)

\* C11: once a snapshot is held, every id of the selection is the id of a
\* project of that snapshot.
C11_SelectionWithinSnapshot == data.has => Range(selectedProjects) \subseteq SnapshotIds

\* A button that starts a fetch is offered: Refresh or Try Again.
OffersRefetch == ENABLED (Refresh \/ TryAgain)

\* C12: whenever no fetch is in flight, Refresh or Try Again is offered.
C12_RefetchAlwaysOffered ==
    (phase # "constructed" /\ inflight = <<>>) => OffersRefetch

\* The fetch failed: the body is null (reading it throws), or it is not a
\* success with data.
IsFailure(response) == response.null \/ ~(response.success /\ response.data.has)

\* A resolution ends with loading false and starts no fetch; a failed one
\* leaves an error and the snapshot as it was, a successful one leaves no
\* error and the snapshot of the response.
ResolutionSteps ==
    \A i \in 1..Len(inflight) : \A r \in getProjects(inflight[i]) :
        Resolve(i, r) =>
            /\ loading' = FALSE
            /\ Len(inflight') = Len(inflight) - 1
            /\ IF IsFailure(r)
               THEN error'.has /\ data' = data
               ELSE error' = Null /\ data' = r.data

\* A step that starts a fetch clears the error, and where an error is shown
\* that step is Try Again.
FetchStartSteps ==
    Len(inflight') > Len(inflight) =>
        /\ error' = Null
        /\ loading' = TRUE
        /\ error.has => TryAgain

\* While an error is held nothing is being fetched.
ErrorMeansIdle == error.has => (inflight = <<>> /\ ~loading)

\* C13: a failed fetch ends with loading false, an error, the snapshot held
\* before, and no fetch started; the next fetch is started by Try Again and
\* clears the error first; a successful resolution leaves no error and the
\* snapshot of its response.
C13_FailureAndRetry == []ErrorMeansIdle /\ [][ResolutionSteps /\ FetchStartSteps]_vars

\* A fetch failed while the local snapshot of two projects was held: the
\* error is shown and the snapshot is still there.
C13_Witness ==
    /\ phase = "mounted"
    /\ error = Some(s_NetworkError)
    /\ ~loading
    /\ inflight = <<>>
    /\ data.has
    /\ Len(data.unique_projects) = 2

\* C14 as claimed rests on the environment being switchable before a prior
\* fetch has resolved: while a fetch is in flight the environment select, or
\* the menu that holds it, is offered.
C14_EnvironmentSwitchableInFlight ==
    (phase = "mounted" /\ inflight # <<>>) => ENABLED (ChooseEnvironment \/ ToggleConfig)

\* The only fetch in flight, if any, is one for the selected environment,
\* and while it is in flight neither the environment select nor its menu is
\* offered.
InFlightIsOfEnvironment ==
    phase = "mounted" =>
        /\ inflight \in {<<>>, <<environment>>}
        /\ inflight # <<>> => ~ENABLED (ChooseEnvironment \/ ToggleConfig)

\* The snapshot on screen is one fetched for the selected environment.
ShownSnapshotIsOfEnvironment ==
    (phase = "mounted" /\ View(loading, error, data) \in {"grid", "empty"} /\ data.has)
        => data.sourceFile = environment

\* A resolution stores the snapshot of the one fetch in flight, which was
\* started for the environment selected now.
ResolutionIsOfEnvironment ==
    data' # data => (inflight = <<environment>> /\ data'.sourceFile = environment')

\* C14 as amended: fetches carry no token and are never cancelled, but the
\* environment cannot be switched before a prior fetch has resolved, so no
\* two fetches are in flight at once: the one in flight is for the selected
\* environment, and the snapshot a successful resolution leaves, and the
\* one on screen, is that of the selected environment.
C14_NoOverlappingFetches ==
    [](InFlightIsOfEnvironment /\ ShownSnapshotIsOfEnvironment)
        /\ [][ResolutionIsOfEnvironment]_vars

\* The environment was switched to production: its fetch is in flight, the
\* local snapshot is still held, and the select is not on screen.
C14_Witness ==
    /\ phase = "mounted"
    /\ environment = s_production
    /\ inflight = <<s_production>>
    /\ loading
    /\ data.has
    /\ data.sourceFile = s_local
    /\ Len(data.unique_projects) = 2

\* The `selected` parameter of a query string.
SelectedParam(q) == ParamsGet(URLSearchParams(q), s_selected)

\* A change of the environment, and the arrival of a snapshot, leave the
\* selection and the `selected` parameter as they were.
SelectionKeptSteps ==
    (environment' # environment \/ data' # data) =>
        /\ selectedProjects' = selectedProjects
        /\ SelectedParam(search') = SelectedParam(search)

\* C15: changing the environment leaves the selection unchanged, at the
\* change and when the new environment's snapshot arrives: the ids stay
\* selected and stay in the `selected` parameter, whether or not the new
\* snapshot has them.
C15_SelectionSurvivesEnvironment == [][SelectionKeptSteps]_vars

\* Projects a and b of the local snapshot were selected, the environment was
\* switched, and the production snapshot, which has neither, has arrived:
\* both are still selected and in the query string.
C15_Witness ==
    /\ environment = s_production
    /\ data.has
    /\ data.sourceFile = s_production
    /\ ~loading
    /\ selectedProjects = <<id_a, id_b>>
    /\ Range(selectedProjects) \cap SnapshotIds = {}
    /\ SelectedParam(search) = Some(Join(selectedProjects, Comma))
    /\ ParamsGet(URLSearchParams(search), s_env) = Some(s_production)

\* A control that starts a fetch or changes view state is on screen.
ControlsOffered ==
    ENABLED (ChooseEnvironment \/ ToggleConfig \/ ClickOutside \/ Refresh \/ TryAgain
             \/ ToggleProject \/ SelectAll \/ ClearAll \/ ChooseGroupBy \/ ChooseSortBy
             \/ ToggleSortDirection)

\* At most one fetch is in flight, and loading is true exactly while one is.
OneFetchExactlyWhileLoading == Len(inflight) <= 1 /\ (loading <=> inflight # <<>>)

\* C16 as claimed: no control is on screen while loading is true, and in
\* every state at most one fetch is in flight and loading is true exactly
\* while a fetch is in flight.
C16_LoadingIffInFlight == (loading => ~ControlsOffered) /\ OneFetchExactlyWhileLoading

\* C16 as amended: no control is on screen while loading is true, and from
\* the first commit on, when the mount effect has started the first fetch,
\* at most one fetch is in flight and loading is true exactly while a fetch
\* is in flight.  Before that commit loading is true, as useState
\* initialises it, and no fetch has been started.
C16_LoadingIffInFlightOnceMounted ==
    /\ loading => ~ControlsOffered
    /\ phase # "constructed" => OneFetchExactlyWhileLoading
    /\ phase = "constructed" => (loading /\ inflight = <<>>)

\* A refresh of the local grid is in flight: the snapshot is held, loading
\* is true and no control is on screen.
C16_Witness ==
    /\ phase = "mounted"
    /\ environment = s_local
    /\ loading
    /\ inflight = <<s_local>>
    /\ data.has
    /\ data.sourceFile = s_local
    /\ Len(data.unique_projects) = 2
    /\ ~ControlsOffered

====
